---------------------------- MODULE Spec2Model ----------------------------
(***************************************************************************)
(* Model of lib/gls-infrastructure-stack.js: the stream group id           *)
(* validator, the GLSInfrastructureStack constructor (compute unit,        *)
(* permission grant, REST API, routes, instructions output) and the        *)
(* module-level assembly that reads the environment, validates and builds  *)
(* the stack.  Strings are TLA+ strings; a character of s is               *)
(* SubSeq(s, i, i).                                                        *)
(***************************************************************************)
EXTENDS Naturals, Sequences, FiniteSets, TLC

VARIABLES
    env,            \* process.env: STREAM_GROUP_ID / APPLICATION_ID when set
    pc,             \* position of the module evaluation / running constructor
    caller,         \* who runs the constructor: the module itself or an importer
    app,            \* TRUE once `new cdk.App()` has run
    streamGroupId,  \* the module constant of line 153 (a one-element sequence once set)
    thrown,         \* the Error messages thrown out of the module evaluation
    props,          \* the props of the stack under construction
    functions,      \* lambda.Function constructs of the stack
    statements,     \* PolicyStatements added to the function's role
    apis,           \* RestApi constructs of the stack
    integrations,   \* LambdaIntegration objects
    resources,      \* resource paths of the REST API, in declaration order
    methods,        \* declared methods (routes), in declaration order
    outputs,        \* CfnOutputs of the stack
    synthesized,    \* TRUE once the app has been handed to the provisioning engine
    call,           \* the observed call of validateStreamGroupId or
                    \* generateInstructions: the function and its arguments
    result          \* what that call returned or threw

vars == << env, pc, caller, app, streamGroupId, thrown, props, functions,
           statements, apis, integrations, resources, methods, outputs,
           synthesized, call, result >>

stackVars == << props, functions, statements, apis, integrations, resources,
                methods, outputs >>

unitVars == << call, result >>

-----------------------------------------------------------------------------
(* Bounds of the model *)

\* longest run of one repeated character in a generated identifier
MaxRun == 10
\* longest run of characters after the inserted middle character
MaxTail == 1
\* longest run of blanks put around a formatter argument
MaxPad == 1

-----------------------------------------------------------------------------
(* Strings *)

RECURSIVE Pad(_, _)
Pad(c, n) == IF n = 0 THEN "" ELSE c \o Pad(c, n - 1)

CharAt(s, i) == SubSeq(s, i, i)

Lower == {"a","b","c","d","e","f","g","h","i","j","k","l","m",
          "n","o","p","q","r","s","t","u","v","w","x","y","z"}
Upper == {"A","B","C","D","E","F","G","H","I","J","K","L","M",
          "N","O","P","Q","R","S","T","U","V","W","X","Y","Z"}
Digit == {"0","1","2","3","4","5","6","7","8","9"}

\* the character class [a-zA-Z0-9] of the pattern
AlphaNumClass == Lower \cup Upper \cup Digit

\* what String.prototype.trim removes
WhiteSpace == {" ", "\n", "\t", "\r"}

\* indexOf(sub) !== -1
Contains(s, sub) ==
    \E i \in 1..(Len(s) + 1) :
        /\ i + Len(sub) - 1 <= Len(s)
        /\ SubSeq(s, i, i + Len(sub) - 1) = sub

RECURSIVE TrimStart(_)
TrimStart(s) ==
    IF Len(s) > 0 /\ CharAt(s, 1) \in WhiteSpace
    THEN TrimStart(SubSeq(s, 2, Len(s)))
    ELSE s

RECURSIVE TrimEnd(_)
TrimEnd(s) ==
    IF Len(s) > 0 /\ CharAt(s, Len(s)) \in WhiteSpace
    THEN TrimEnd(SubSeq(s, 1, Len(s) - 1))
    ELSE s

Trim(s) == TrimEnd(TrimStart(s))

-----------------------------------------------------------------------------
(* validateStreamGroupId: /^sg-[a-zA-Z0-9]{9,}$/ *)

\* the literal prefix of the pattern
PatternPrefix == "sg-"

\* the lower bound of the quantifier {9,}
MinSuffix == 9

\* the greedy quantifier: how many class characters follow from position i
RECURSIVE ClassRun(_, _)
ClassRun(s, i) ==
    IF i <= Len(s) /\ CharAt(s, i) \in AlphaNumClass
    THEN 1 + ClassRun(s, i + 1)
    ELSE 0

\* the pattern with {8,} and with {10,}
MatchesShortQuantifier(id) ==
    LET p == Len(PatternPrefix)
    IN  /\ Len(id) >= p
        /\ SubSeq(id, 1, p) = PatternPrefix
        /\ LET k == ClassRun(id, p + 1)
           IN  k >= MinSuffix - 1 /\ p + k = Len(id)

MatchesLongQuantifier(id) ==
    LET p == Len(PatternPrefix)
    IN  /\ Len(id) >= p
        /\ SubSeq(id, 1, p) = PatternPrefix
        /\ LET k == ClassRun(id, p + 1)
           IN  k > MinSuffix /\ p + k = Len(id)

\* id.match(/^sg-[a-zA-Z0-9]{9,}$/) is not null.  ^ anchors at position 1;
\* $ (no m flag) matches at the end of the input only, so the run of class
\* characters has to reach the last character.
MatchesPattern(id) ==
    LET p == Len(PatternPrefix)
    IN  /\ Len(id) >= p
        /\ SubSeq(id, 1, p) = PatternPrefix
        /\ LET k == ClassRun(id, p + 1)
           IN  k >= MinSuffix /\ p + k = Len(id)

FormatErrorMessage ==
    "Invalid Stream Group ID format. Must match pattern: At least 9 alphanumeric characters after sg-"

Return(v) == [kind |-> "return", value |-> v]
Throw(m)  == [kind |-> "throw", value |-> m]

validateStreamGroupId(id) ==
    IF ~MatchesPattern(id)
    THEN Throw(FormatErrorMessage)
    ELSE Return(id)

-----------------------------------------------------------------------------
(* generateInstructions *)

InstructionsHead ==
    "\n" \o Pad(" ", 32) \o "Instructions" \o Pad(" ", 35) \o "\n\n\n"
    \o "  Here is your Amazon GameLift Streams Share URL:" \o Pad(" ", 164) \o "\n  "

InstructionsTail ==
    "\n  \n"
    \o "  Add or update arguments to your URL to share your stream:" \o Pad(" ", 29) \o "\n"
    \o "  ?userId={Add Player Name}&applicationId={Add Application ID}&location={Add AWS Region} "
    \o "\n\n    "

generateInstructionsTrimmedArgs(apiUrl, sgId, applicationId) ==
    Trim(InstructionsHead
         \o Trim(apiUrl) \o "?userId=Player1&applicationId=" \o Trim(applicationId)
         \o "&location=us-east-2"
         \o InstructionsTail)

generateInstructions(apiUrl, sgId, applicationId) ==
    Trim(InstructionsHead
         \o apiUrl \o "?userId=Player1&applicationId=" \o applicationId
         \o "&location=us-east-2"
         \o InstructionsTail)

-----------------------------------------------------------------------------
(* Inputs *)

IdPrefixes == {"sg-", "", "sg", "Sg-", "xsg-", "sg_"}
IdFill     == {"a", "Z", "0"}
IdMids     == {"", "9", "A", "z", "-", "_", " ", "\n", "/", ":", "@", "[", "{"}

\* prefix, a run of one character, one optional middle character, a short tail
Identifiers ==
    { p \o Pad(c, i) \o m \o Pad(c, j) :
        p \in IdPrefixes, c \in IdFill, m \in IdMids,
        i \in 0..MaxRun, j \in 0..MaxTail }

Blanks == {" ", "\n"}

Padded(cores) ==
    { Pad(w, i) \o c \o Pad(w, j) :
        c \in cores, w \in Blanks, i \in 0..MaxPad, j \in 0..MaxPad }

BaseUrls       == Padded({"", "https://x.example/prod", "${Token[TOKEN.217]}"})
ApplicationIds == Padded({"", "a-1", "a-000000000", "x&location=eu-west-1"})
FormatterGroupIds == {"sg-abc123456", "", "not-a-group"}

-----------------------------------------------------------------------------
(* State after loading, before the module body runs *)

NoStack ==
    /\ props = << >>
    /\ functions = << >>
    /\ statements = << >>
    /\ apis = << >>
    /\ integrations = << >>
    /\ resources = << >>
    /\ methods = << >>
    /\ outputs = << >>

Loaded ==
    /\ caller = "module"
    /\ app = FALSE
    /\ streamGroupId = << >>
    /\ thrown = << >>
    /\ synthesized = FALSE
    /\ NoStack

-----------------------------------------------------------------------------
(* Unit harness: one call of a function on drawn arguments *)

UnitIdle ==
    /\ env = [n \in {} |-> ""]
    /\ pc = "unit"
    /\ Loaded

ValidatorInit ==
    /\ UnitIdle
    /\ \E id \in Identifiers :
          call = << [fn |-> "validateStreamGroupId", args |-> << id >>] >>
    /\ result = << >>

CallValidate ==
    /\ pc = "unit"
    /\ call # << >>
    /\ call[1].fn = "validateStreamGroupId"
    /\ result = << >>
    /\ result' = << validateStreamGroupId(call[1].args[1]) >>
    /\ UNCHANGED << env, pc, caller, app, streamGroupId, thrown, stackVars,
                    synthesized, call >>

ValidatorSpec == ValidatorInit /\ [][CallValidate]_vars

FormatterInit ==
    /\ UnitIdle
    /\ \E u \in BaseUrls, g \in FormatterGroupIds, a \in ApplicationIds :
          call = << [fn |-> "generateInstructions", args |-> << u, g, a >>] >>
    /\ result = << >>

CallFormat ==
    /\ pc = "unit"
    /\ call # << >>
    /\ call[1].fn = "generateInstructions"
    /\ result = << >>
    /\ result' = << Return(generateInstructions(call[1].args[1], call[1].args[2],
                                                call[1].args[3])) >>
    /\ UNCHANGED << env, pc, caller, app, streamGroupId, thrown, stackVars,
                    synthesized, call >>

FormatterSpec == FormatterInit /\ [][CallFormat]_vars

-----------------------------------------------------------------------------
(* GLSInfrastructureStack constructor: the constructs it declares *)

\* new lambda.Function(this, 'GameLiftStreamsServerLambda', {...})
ServerLambda(p) ==
    [ id           |-> "GameLiftStreamsServerLambda",
      runtime      |-> "nodejs18.x",
      code         |-> "../server",
      handler      |-> "server.handler",
      memorySize   |-> 512,
      timeout      |-> 300,
      environment  |-> [ STREAM_GROUP_ID |-> p.streamGroupId,
                         APPLICATION_ID  |-> p.applicationId,
                         NODE_OPTIONS    |-> "--enable-source-maps" ],
      architecture |-> "arm64",
      tracing      |-> "Active",
      logRetention |-> "ONE_MONTH" ]

ApplicationPattern == "arn:aws:gameliftstreams:*:*:application/*"
StreamGroupPatternPrefix == "arn:aws:gameliftstreams:*:*:streamgroup/"

GrantActions ==
    << "gameliftstreams:StartStreamSession",
       "gameliftstreams:GetStreamSession",
       "gameliftstreams:TerminateStreamSession" >>

\* new iam.PolicyStatement({...}) with the application resource narrowed to
\* the configured application
PolicyStatementScopedToApplication(p) ==
    [ effect    |-> "Allow",
      actions   |-> GrantActions,
      resources |-> << "arn:aws:gameliftstreams:*:*:application/" \o p.applicationId,
                       StreamGroupPatternPrefix \o p.streamGroupId >> ]

\* new iam.PolicyStatement({...}) with every stream group as its resource
PolicyStatementAllGroups(p) ==
    [ effect    |-> "Allow",
      actions   |-> GrantActions,
      resources |-> << ApplicationPattern, StreamGroupPatternPrefix \o "*" >> ]

\* new iam.PolicyStatement({...})
PolicyStatement(p) ==
    [ effect    |-> "Allow",
      actions   |-> GrantActions,
      resources |-> << ApplicationPattern,
                       StreamGroupPatternPrefix \o p.streamGroupId >> ]

\* new apigateway.RestApi(this, 'GameLiftStreamsShareUrlApi', {...}); the
\* CORS preflight options and the deploy options are kept as given, as
\* attributes of the API
RestApi ==
    [ id          |-> "GameLiftStreamsShareUrlApi",
      restApiName |-> "GameLiftStreams Share Api",
      description |-> "API for the GameLiftStreams Share application",
      defaultCorsPreflightOptions |->
          [ allowOrigins |-> << "*" >>,
            allowMethods |-> << "OPTIONS", "GET", "PUT", "POST", "DELETE",
                                "PATCH", "HEAD" >>,
            allowHeaders |-> << "Content-Type", "X-Amz-Date", "Authorization",
                                "X-Api-Key", "X-Amz-Security-Token" >>,
            maxAgeDays   |-> 1 ],
      deployOptions |->
          [ loggingLevel     |-> "INFO",
            dataTraceEnabled |-> TRUE,
            tracingEnabled   |-> TRUE ],
      \* api.url is an unresolved token until deployment
      url |-> "${Token[GameLiftStreamsShareUrlApi.url]}" ]

\* new apigateway.LambdaIntegration(serverLambda, {...})
LambdaIntegration(fn) ==
    [ handler |-> fn.id, proxy |-> TRUE, timeoutSeconds |-> 29 ]

RootPath == "/"

\* addResource with the child hung under the root whatever the parent
AddResourceUnderRoot(parent, name) == RootPath \o name

\* resource.addResource(name): the path of the child resource
AddResource(parent, name) ==
    IF parent = RootPath THEN parent \o name ELSE parent \o "/" \o name

\* the methodResponses of the addMethod helper
MethodResponses ==
    << [ statusCode |-> "200",
         responseParameters |->
            [ h \in { "method.response.header.Content-Type",
                      "method.response.header.Access-Control-Allow-Origin",
                      "method.response.header.Access-Control-Allow-Headers",
                      "method.response.header.Access-Control-Allow-Methods" }
                |-> TRUE ] ],
       [ statusCode |-> "400" ],
       [ statusCode |-> "500" ] >>

\* the addMethod helper declaring the 200 response only
addMethodSuccessOnly(resource, httpMethod, integration) ==
    [ path            |-> resource,
      httpMethod      |-> httpMethod,
      integration     |-> integration,
      methodResponses |-> << MethodResponses[1] >> ]

\* the addMethod helper with the response contract left off for POST
addMethodBareOnPost(resource, httpMethod, integration) ==
    [ path            |-> resource,
      httpMethod      |-> httpMethod,
      integration     |-> integration,
      methodResponses |-> IF httpMethod = "POST" THEN << >> ELSE MethodResponses ]

\* the addMethod helper: resource.addMethod(httpMethod, lambdaIntegration, {...})
addMethod(resource, httpMethod, integration) ==
    [ path            |-> resource,
      httpMethod      |-> httpMethod,
      integration     |-> integration,
      methodResponses |-> MethodResponses ]

ProxyPath == AddResource(RootPath, "{proxy+}")

\* api.root.addProxy({ defaultIntegration, anyMethod: true }): the greedy
\* resource and its ANY method; no method options are passed
addProxy(integration) ==
    [ path            |-> ProxyPath,
      httpMethod      |-> "ANY",
      integration     |-> integration,
      methodResponses |-> << >> ]

-----------------------------------------------------------------------------
(* Module-level assembly and the constructor, step by step *)

EnvNames == {"STREAM_GROUP_ID", "APPLICATION_ID"}

EnvApplicationIds == {"", "a-1", " x&location=eu-west-1 "}

\* what a module that requires this one may pass to the exported class
ImporterGroupIds == {"sg-abc123456", "sg-12345678", "", "*"}
ImporterApplicationIds == {"a-1"}

DefaultStreamGroupIdShort == "sg-00000000"

DefaultStreamGroupId == "sg-000000000"

DefaultApplicationId == "a-000000000"

\* process.env[name] ?? fallback: only unset gives the fallback
EnvOrUnsetOnly(name, fallback) ==
    IF name \in DOMAIN env THEN env[name] ELSE fallback

\* process.env[name] || fallback: unset and empty both give the fallback
EnvOr(name, fallback) ==
    IF name \in DOMAIN env /\ env[name] # "" THEN env[name] ELSE fallback

Init ==
    /\ \E D \in SUBSET EnvNames, g \in Identifiers, a \in EnvApplicationIds :
          env = [n \in D |-> IF n = "STREAM_GROUP_ID" THEN g ELSE a]
    /\ pc = "app"
    /\ Loaded
    /\ call = << >>
    /\ result = << >>

\* const app = new cdk.App()
NewApp ==
    /\ pc = "app"
    /\ app' = TRUE
    /\ pc' = "validate"
    /\ UNCHANGED << env, caller, streamGroupId, thrown, stackVars, synthesized,
                    unitVars >>

\* the validation step with the error swallowed and the raw value kept
ValidateSwallowingError ==
    /\ pc = "validate"
    /\ LET arg == EnvOr("STREAM_GROUP_ID", DefaultStreamGroupId)
           r   == validateStreamGroupId(arg)
       IN  /\ thrown' = IF r.kind = "throw" THEN << r.value >> ELSE thrown
           /\ streamGroupId' = << arg >>
           /\ pc' = "stack"
           /\ call' = << [fn |-> "validateStreamGroupId", args |-> << arg >>] >>
           /\ result' = << r >>
    /\ UNCHANGED << env, caller, app, stackVars, synthesized >>

\* const streamGroupId = validateStreamGroupId(process.env.STREAM_GROUP_ID || 'sg-000000000');
\* the Error is not caught: it ends the module evaluation
Validate ==
    /\ pc = "validate"
    /\ LET arg == EnvOr("STREAM_GROUP_ID", DefaultStreamGroupId)
           r   == validateStreamGroupId(arg)
       IN  /\ call' = << [fn |-> "validateStreamGroupId", args |-> << arg >>] >>
           /\ result' = << r >>
           /\ IF r.kind = "throw"
              THEN /\ thrown' = << r.value >>
                   /\ pc' = "aborted"
                   /\ UNCHANGED streamGroupId
              ELSE /\ streamGroupId' = << r.value >>
                   /\ pc' = "stack"
                   /\ UNCHANGED thrown
    /\ UNCHANGED << env, caller, app, stackVars, synthesized >>

\* new GLSInfrastructureStack(app, 'GameLiftStreamsGLSInfrastructureStack', {...});
\* super(scope, id, props)
NewStack ==
    /\ pc = "stack"
    /\ props' = << [ id            |-> "GameLiftStreamsGLSInfrastructureStack",
                     streamGroupId |-> streamGroupId[1],
                     applicationId |-> EnvOr("APPLICATION_ID", DefaultApplicationId) ] >>
    /\ pc' = "lambda"
    /\ UNCHANGED << env, caller, app, streamGroupId, thrown, functions,
                    statements, apis, integrations, resources, methods,
                    outputs, synthesized, unitVars >>

\* the exported class constructed by a module that required this one: the
\* props are the caller's, a fresh stack is begun
ImportConstruct ==
    /\ pc = "done"
    /\ ~synthesized
    /\ \E g \in ImporterGroupIds, a \in ImporterApplicationIds :
          props' = << [ id |-> "ImportedStack", streamGroupId |-> g,
                        applicationId |-> a ] >>
    /\ caller' = "importer"
    /\ functions' = << >>
    /\ statements' = << >>
    /\ apis' = << >>
    /\ integrations' = << >>
    /\ resources' = << >>
    /\ methods' = << >>
    /\ outputs' = << >>
    /\ pc' = "lambda"
    /\ UNCHANGED << env, app, streamGroupId, thrown, synthesized, unitVars >>

CreateLambda ==
    /\ pc = "lambda"
    /\ functions' = Append(functions, ServerLambda(props[1]))
    /\ pc' = "policy"
    /\ UNCHANGED << env, caller, app, streamGroupId, thrown, props, statements,
                    apis, integrations, resources, methods, outputs,
                    synthesized, unitVars >>

\* serverLambda.addToRolePolicy(new iam.PolicyStatement({...}))
AddToRolePolicy ==
    /\ pc = "policy"
    /\ statements' = Append(statements, PolicyStatement(props[1]))
    /\ pc' = "api"
    /\ UNCHANGED << env, caller, app, streamGroupId, thrown, props, functions,
                    apis, integrations, resources, methods, outputs,
                    synthesized, unitVars >>

\* new apigateway.RestApi(...): the API and its root resource
CreateRestApi ==
    /\ pc = "api"
    /\ apis' = Append(apis, RestApi)
    /\ resources' = Append(resources, RootPath)
    /\ pc' = "integration"
    /\ UNCHANGED << env, caller, app, streamGroupId, thrown, props, functions,
                    statements, integrations, methods, outputs, synthesized,
                    unitVars >>

CreateIntegration ==
    /\ pc = "integration"
    /\ integrations' = Append(integrations, LambdaIntegration(functions[1]))
    /\ pc' = "root"
    /\ UNCHANGED << env, caller, app, streamGroupId, thrown, props, functions,
                    statements, apis, resources, methods, outputs, synthesized,
                    unitVars >>

\* addMethod(api.root, 'ANY')
AddRootMethod ==
    /\ pc = "root"
    /\ methods' = Append(methods, addMethod(RootPath, "ANY", integrations[1]))
    /\ pc' = "apiResource"
    /\ UNCHANGED << env, caller, app, streamGroupId, thrown, props, functions,
                    statements, apis, integrations, resources, outputs,
                    synthesized, unitVars >>

ApiResourcePath == AddResource(RootPath, "api")

\* const apiResource = api.root.addResource('api')
AddApiResource ==
    /\ pc = "apiResource"
    /\ resources' = Append(resources, ApiResourcePath)
    /\ pc' = "CreateStreamSession"
    /\ UNCHANGED << env, caller, app, streamGroupId, thrown, props, functions,
                    statements, apis, integrations, methods, outputs,
                    synthesized, unitVars >>

\* addMethod(apiResource.addResource(name), 'POST')
AddEndpoint(name, next) ==
    /\ pc = name
    /\ LET r == AddResource(ApiResourcePath, name)
       IN  /\ resources' = Append(resources, r)
           /\ methods' = Append(methods, addMethod(r, "POST", integrations[1]))
    /\ pc' = next
    /\ UNCHANGED << env, caller, app, streamGroupId, thrown, props, functions,
                    statements, apis, integrations, outputs, synthesized,
                    unitVars >>

AddCreateStreamSession  == AddEndpoint("CreateStreamSession", "GetSignalResponse")
AddGetSignalResponse    == AddEndpoint("GetSignalResponse", "DestroyStreamSession")
AddDestroyStreamSession == AddEndpoint("DestroyStreamSession", "proxy")

\* api.root.addProxy({ defaultIntegration: lambdaIntegration, anyMethod: true })
AddProxy ==
    /\ pc = "proxy"
    /\ resources' = Append(resources, ProxyPath)
    /\ methods' = Append(methods, addProxy(integrations[1]))
    /\ pc' = "output"
    /\ UNCHANGED << env, caller, app, streamGroupId, thrown, props, functions,
                    statements, apis, integrations, outputs, synthesized,
                    unitVars >>

\* new cdk.CfnOutput(this, 'Instructions', {...}); the constructor returns
OutputInstructions ==
    /\ pc = "output"
    /\ outputs' = Append(outputs,
          [ id          |-> "Instructions",
            value       |-> generateInstructions(apis[1].url, props[1].streamGroupId,
                                                 props[1].applicationId),
            description |-> "Instructions for using the GameLiftStreams Share URL" ])
    /\ pc' = "done"
    /\ UNCHANGED << env, caller, app, streamGroupId, thrown, props, functions,
                    statements, apis, integrations, resources, methods,
                    synthesized, unitVars >>

\* the process ends normally and the app hands its stacks to the
\* provisioning engine (synthesis); nothing runs after it
Synth ==
    /\ pc = "done"
    /\ app
    /\ ~synthesized
    /\ synthesized' = TRUE
    /\ pc' = "exit"
    /\ UNCHANGED << env, caller, app, streamGroupId, thrown, stackVars, unitVars >>

Next ==
    \/ NewApp
    \/ Validate
    \/ NewStack
    \/ ImportConstruct
    \/ CreateLambda
    \/ AddToRolePolicy
    \/ CreateRestApi
    \/ CreateIntegration
    \/ AddRootMethod
    \/ AddApiResource
    \/ AddCreateStreamSession
    \/ AddGetSignalResponse
    \/ AddDestroyStreamSession
    \/ AddProxy
    \/ OutputInstructions
    \/ Synth

Spec == Init /\ [][Next]_vars

-----------------------------------------------------------------------------
(* The claims' own reading of the identifier format *)

ClaimAlphabet == "ABCDEFGHIJKLMNOPQRSTUVWXYZabcdefghijklmnopqrstuvwxyz0123456789"

\* s is 'sg-' followed by 9 or more characters of [A-Za-z0-9]
IsSgPlusNine(s) ==
    /\ Len(s) >= 12
    /\ CharAt(s, 1) = "s" /\ CharAt(s, 2) = "g" /\ CharAt(s, 3) = "-"
    /\ \A i \in 4..Len(s) : Contains(ClaimAlphabet, CharAt(s, i))

Called(fn) == call # << >> /\ call[1].fn = fn /\ result # << >>

\* C1: every string 'sg-' + 9 or more characters of [A-Za-z0-9] is accepted
\* by validateStreamGroupId, which returns it unchanged.
C1_AcceptsAndReturnsUnchanged ==
    (Called("validateStreamGroupId") /\ IsSgPlusNine(call[1].args[1]))
        => result[1] = Return(call[1].args[1])

\* an identifier with exactly 9 characters after 'sg-' has been returned
C1_Witness ==
    /\ Called("validateStreamGroupId")
    /\ Len(call[1].args[1]) = 12
    /\ IsSgPlusNine(call[1].args[1])
    /\ result[1].kind = "return"

\* C2: every string that is not 'sg-' + 9 or more characters of [A-Za-z0-9]
\* makes validateStreamGroupId throw the format error; no value is returned.
C2_RejectsEverythingElse ==
    (Called("validateStreamGroupId") /\ ~IsSgPlusNine(call[1].args[1]))
        => result[1] = Throw(FormatErrorMessage)

\* a long enough suffix with one character outside the class has been rejected
C2_Witness ==
    /\ Called("validateStreamGroupId")
    /\ Len(call[1].args[1]) >= 13
    /\ SubSeq(call[1].args[1], 1, 3) = "sg-"
    /\ ~IsSgPlusNine(call[1].args[1])
    /\ result[1].kind = "throw"

\* C8: the text returned by generateInstructions contains
\* baseUrl + '?userId=Player1&applicationId=' + applicationId + '&location=us-east-2'
\* with both values as given.
C8_InstructionsEmbedUrl ==
    Called("generateInstructions")
        => /\ result[1].kind = "return"
           /\ Contains(result[1].value,
                       call[1].args[1] \o "?userId=Player1&applicationId="
                       \o call[1].args[3] \o "&location=us-east-2")

\* the formatter has run on a base URL and an application id that both carry
\* blanks at their ends
C8_Witness ==
    /\ Called("generateInstructions")
    /\ call[1].args[1] = " https://x.example/prod "
    /\ call[1].args[3] = "\na-1\n"
    /\ result[1].kind = "return"

-----------------------------------------------------------------------------
(* Claims about the assembly *)

Built == pc \in {"done", "exit"}

\* C3: when validation fails nothing is built and nothing is handed off: no
\* compute unit, grant or route exists, the app is never synthesized, and
\* whatever has been built was built after a successful validation.
C3_FailedValidationBuildsNothing ==
    /\ thrown # << >> =>
          /\ pc = "aborted"
          /\ functions = << >> /\ statements = << >> /\ methods = << >>
          /\ resources = << >> /\ apis = << >> /\ outputs = << >>
          /\ ~synthesized
    /\ (functions # << >> \/ statements # << >> \/ methods # << >> \/ synthesized)
          => (streamGroupId # << >> /\ thrown = << >>)

\* the module evaluation has ended on the format error of a set, malformed id
C3_Witness ==
    /\ pc = "aborted"
    /\ thrown = << FormatErrorMessage >>
    /\ "STREAM_GROUP_ID" \in DOMAIN env
    /\ env["STREAM_GROUP_ID"] = "sg-aaaaaaaa"
    /\ app

RouteKeys == { << methods[i].path, methods[i].httpMethod >> : i \in 1..Len(methods) }

FiveRoutes ==
    { << "/", "ANY" >>,
      << "/api/CreateStreamSession", "POST" >>,
      << "/api/GetSignalResponse", "POST" >>,
      << "/api/DestroyStreamSession", "POST" >>,
      << "/{proxy+}", "ANY" >> }

ContractHeaders ==
    { "method.response.header.Content-Type",
      "method.response.header.Access-Control-Allow-Origin",
      "method.response.header.Access-Control-Allow-Headers",
      "method.response.header.Access-Control-Allow-Methods" }

HasResponseContract(m) ==
    /\ Len(m.methodResponses) = 3
    /\ DOMAIN m.methodResponses[1] = {"statusCode", "responseParameters"}
    /\ m.methodResponses[1].statusCode = "200"
    /\ DOMAIN m.methodResponses[1].responseParameters = ContractHeaders
    /\ \A h \in ContractHeaders : m.methodResponses[1].responseParameters[h] = TRUE
    /\ m.methodResponses[2] = [statusCode |-> "400"]
    /\ m.methodResponses[3] = [statusCode |-> "500"]

\* C7: every declared route other than the catch-all carries the same
\* response contract: 200 flagging exactly the four headers, and bare 400
\* and 500 responses.
C7_UniformResponseContract ==
    /\ \A i \in 1..Len(methods) :
          methods[i].path # "/{proxy+}" => HasResponseContract(methods[i])
    /\ \A i, j \in 1..Len(methods) :
          (methods[i].path # "/{proxy+}" /\ methods[j].path # "/{proxy+}")
             => methods[i].methodResponses = methods[j].methodResponses
    /\ (pc \in {"output", "done", "exit"}) =>
          Cardinality({ i \in 1..Len(methods) : methods[i].path # "/{proxy+}" }) = 4

\* the root route and the three POST routes have all been declared
C7_Witness ==
    /\ pc = "proxy"
    /\ Len(methods) = 4
    /\ methods[1].httpMethod = "ANY"
    /\ methods[4].httpMethod = "POST"

EnvSuppliesNothing ==
    \A n \in DOMAIN env : env[n] = ""

\* C9: with nothing supplied by the environment the ids are 'sg-000000000'
\* and 'a-000000000', validation does not fail, and the finished descriptor
\* has exactly one compute unit, one grant and five routes.
C9_DefaultsAssemble ==
    (EnvSuppliesNothing /\ caller = "module") =>
        /\ thrown = << >>
        /\ pc # "aborted"
        /\ streamGroupId # << >> => streamGroupId[1] = "sg-000000000"
        /\ props # << >> =>
              /\ props[1].streamGroupId = "sg-000000000"
              /\ props[1].applicationId = "a-000000000"
        /\ Built =>
              /\ Len(functions) = 1
              /\ functions[1].environment.STREAM_GROUP_ID = "sg-000000000"
              /\ functions[1].environment.APPLICATION_ID = "a-000000000"
              /\ Len(statements) = 1
              /\ Len(methods) = 5
              /\ Cardinality({ i \in 1..Len(methods) : methods[i].path # "/{proxy+}" }) = 4

\* the assembly has completed and been handed off with an empty environment
C9_Witness ==
    /\ DOMAIN env = {}
    /\ caller = "module"
    /\ pc = "exit"
    /\ synthesized
    /\ Len(functions) = 1 /\ Len(statements) = 1 /\ Len(methods) = 5

GroupPatternStart == "arn:aws:gameliftstreams:*:*:streamgroup/"

\* C10: the stream-group resource pattern of every grant embeds an id that
\* matches 'sg-' + 9 or more alphanumerics, whoever ran the constructor.
C10_GrantEmbedsValidatedId ==
    \A i \in 1..Len(statements) :
        \A j \in 1..Len(statements[i].resources) :
            LET r == statements[i].resources[j]
                n == Len(GroupPatternStart)
            IN  (Len(r) >= n /\ SubSeq(r, 1, n) = GroupPatternStart)
                    => IsSgPlusNine(SubSeq(r, n + 1, Len(r)))


IsSuccessStatus(code) == CharAt(code, 1) = "2"
IsErrorStatus(code)   == CharAt(code, 1) \in {"4", "5"}

DeclaresSuccessAndError(m) ==
    /\ \E k \in 1..Len(m.methodResponses) :
          IsSuccessStatus(m.methodResponses[k].statusCode)
    /\ \E k \in 1..Len(m.methodResponses) :
          IsErrorStatus(m.methodResponses[k].statusCode)

\* C11: every route entry, the catch-all proxy route included, declares at
\* least one success status and at least one error status.
C11_EveryRouteDeclaresStatuses ==
    \A i \in 1..Len(methods) : DeclaresSuccessAndError(methods[i])

\* C11 as amended: every route entry other than the catch-all declares at
\* least one success status and at least one error status; the catch-all
\* proxy route declares no response status at all.
C11_NamedRoutesDeclareStatuses ==
    \A i \in 1..Len(methods) :
        IF methods[i].path = "/{proxy+}"
        THEN methods[i].methodResponses = << >>
        ELSE DeclaresSuccessAndError(methods[i])

\* the finished table holds the catch-all without statuses next to a named
\* route with them
C11_Witness ==
    /\ Built
    /\ Len(methods) = 5
    /\ methods[5].path = "/{proxy+}"
    /\ methods[5].methodResponses = << >>
    /\ DeclaresSuccessAndError(methods[2])


\* the configuration the environment gives: the value when set and not
\* empty, the default otherwise
ConfiguredGroupId ==
    IF "STREAM_GROUP_ID" \in DOMAIN env /\ env["STREAM_GROUP_ID"] # ""
    THEN env["STREAM_GROUP_ID"] ELSE "sg-000000000"

ConfiguredApplicationId ==
    IF "APPLICATION_ID" \in DOMAIN env /\ env["APPLICATION_ID"] # ""
    THEN env["APPLICATION_ID"] ELSE "a-000000000"

\* the grant as a function of the stream group id alone
GrantOf(g) ==
    [ effect    |-> "Allow",
      actions   |-> << "gameliftstreams:StartStreamSession",
                       "gameliftstreams:GetStreamSession",
                       "gameliftstreams:TerminateStreamSession" >>,
      resources |-> << "arn:aws:gameliftstreams:*:*:application/*",
                       "arn:aws:gameliftstreams:*:*:streamgroup/" \o g >> ]

RouteOrder ==
    << << "/", "ANY" >>,
       << "/api/CreateStreamSession", "POST" >>,
       << "/api/GetSignalResponse", "POST" >>,
       << "/api/DestroyStreamSession", "POST" >>,
       << "/{proxy+}", "ANY" >> >>

\* a route entry that is fixed by its position in the table alone
FixedRoute(i) ==
    /\ i <= Len(RouteOrder)
    /\ << methods[i].path, methods[i].httpMethod >> = RouteOrder[i]
    /\ methods[i].integration =
          [ handler |-> "GameLiftStreamsServerLambda", proxy |-> TRUE,
            timeoutSeconds |-> 29 ]
    /\ IF methods[i].path = "/{proxy+}"
       THEN methods[i].methodResponses = << >>
       ELSE HasResponseContract(methods[i])

\* C12: the application id is never validated and decides nothing but the
\* APPLICATION_ID binding and the instruction text: whether the assembly
\* fails, the grant and the route table are determined by the stream group
\* id alone, so two configurations that differ only in the application id
\* agree on all three.
C12_ApplicationIdDecidesNothing ==
    /\ (caller = "module" /\ pc \notin {"app", "validate"}) =>
          /\ (thrown # << >>) <=> ~IsSgPlusNine(ConfiguredGroupId)
          /\ (pc = "aborted") <=> ~IsSgPlusNine(ConfiguredGroupId)
    /\ (caller = "module" /\ props # << >>) =>
          /\ props[1].streamGroupId = ConfiguredGroupId
          /\ props[1].applicationId = ConfiguredApplicationId
    /\ props # << >> =>
          \/ statements = << >>
          \/ statements = << GrantOf(props[1].streamGroupId) >>
    /\ \A i \in 1..Len(methods) : FixedRoute(i)
    /\ functions # << >> =>
          functions[1].environment.APPLICATION_ID = props[1].applicationId
    /\ outputs # << >> =>
          Contains(outputs[1].value,
                   "applicationId=" \o props[1].applicationId \o "&location=us-east-2")

\* a finished assembly whose application id is no well-formed id at all
C12_Witness ==
    /\ caller = "module"
    /\ pc = "exit"
    /\ "APPLICATION_ID" \in DOMAIN env
    /\ env["APPLICATION_ID"] = " x&location=eu-west-1 "
    /\ ConfiguredGroupId = "sg-aaaaaaaaa"
    /\ functions[1].environment.APPLICATION_ID = " x&location=eu-west-1 "
    /\ statements = << GrantOf("sg-aaaaaaaaa") >>
    /\ Len(methods) = 5


\* C13: an unset or empty STREAM_GROUP_ID is replaced by 'sg-000000000'
\* before the validator runs, so the validator never receives the empty
\* string and the assembly does not fail; a non-empty value is passed as it
\* is; and the id in the compute unit's STREAM_GROUP_ID binding and in the
\* grant's stream-group pattern is the value the validator returned.
C13_DefaultBeforeValidation ==
    /\ Called("validateStreamGroupId") =>
          /\ call[1].args[1] # ""
          /\ call[1].args[1] =
                (IF "STREAM_GROUP_ID" \in DOMAIN env /\ env["STREAM_GROUP_ID"] # ""
                 THEN env["STREAM_GROUP_ID"] ELSE "sg-000000000")
    /\ ("STREAM_GROUP_ID" \notin DOMAIN env \/ env["STREAM_GROUP_ID"] = "") =>
          /\ thrown = << >> /\ pc # "aborted"
          /\ Called("validateStreamGroupId") => result[1] = Return("sg-000000000")
    /\ (pc = "aborted") <=> (Called("validateStreamGroupId") /\ result[1].kind = "throw")
    /\ (caller = "module" /\ functions # << >>) =>
          /\ result[1].kind = "return"
          /\ functions[1].environment.STREAM_GROUP_ID = result[1].value
    /\ (caller = "module" /\ statements # << >>) =>
          /\ result[1].kind = "return"
          /\ statements[1].resources[2] =
                "arn:aws:gameliftstreams:*:*:streamgroup/" \o result[1].value

\* STREAM_GROUP_ID is set but empty and the assembly has completed on the default
C13_Witness ==
    /\ "STREAM_GROUP_ID" \in DOMAIN env
    /\ env["STREAM_GROUP_ID"] = ""
    /\ caller = "module"
    /\ pc = "exit"
    /\ call[1].args[1] = "sg-000000000"
    /\ functions[1].environment.STREAM_GROUP_ID = "sg-000000000"
    /\ statements[1].resources[2] = "arn:aws:gameliftstreams:*:*:streamgroup/sg-000000000"

=============================================================================
